---- MODULE Spec2Model ----
(***************************************************************************)
(* Appointment scheduling engine of the medical-office application:        *)
(*   - the calendar Server Actions (app/dashboard/calendar/actions.ts)     *)
(*     over the appointment table,                                         *)
(*   - the calendar store (stores/useCalendarStore) with its keyed cache,  *)
(*   - the calendar page and the modals that call the actions and the      *)
(*     store.                                                              *)
(* Timestamps are integers counting minutes; an absent optional value      *)
(* (undefined / null) is the empty sequence and a present one is a         *)
(* one-element sequence.                                                   *)
(***************************************************************************)
EXTENDS Integers, Sequences, FiniteSets, TLC

VARIABLES
    appointments,       \* rows of the appointment table (prisma.appointment)
    nextId,             \* the next fresh appointment id
    last,               \* the latest Server Action call: request and outcome
    pivotDate,          \* calendar store: the date the view is centred on
    viewMode,           \* calendar store: "day", "week" or "month"
    showCancelled,      \* calendar store: the filter flag
    appointmentsCache,  \* calendar store: cache key -> fetched list
    storeLog,           \* the calendar store actions taken so far
    persisted,          \* localStorage: the entry "calendar-preferences"
    fetches,            \* calendar page: fetchAndCache calls in flight
    pending,            \* modal handler awaiting its Server Action result
    clicks,             \* calendar page: the user's actions so far
    fetchedBy,          \* cache key -> the fetchAndCache call that filled it
    calls               \* session -> its createAppointment call in progress

serverVars == << appointments, nextId, last, calls >>

storeVars == << pivotDate, viewMode, showCancelled, appointmentsCache,
                storeLog, persisted >>

pageVars == << fetches, pending, clicks, fetchedBy >>

vars == << appointments, nextId, last, pivotDate, viewMode, showCancelled,
           appointmentsCache, storeLog, persisted, fetches, pending, clicks,
           fetchedBy, calls >>

\* ------------------------------------------------------------------ bounds

\* Number of appointment ids the table ever issues.
MaxAppts == 2

\* ------------------------------------------------------- optional values

None == << >>

Some(v) == << v >>

\* ----------------------------------------------------------- program data

\* lib/validations/appointment.ts
APPOINTMENT_DURATIONS == {15, 30, 45, 60}

APPOINTMENT_TYPES == {"Premiere consultation", "Suivi", "Urgence"}

\* Longest accepted notes text.
MAX_NOTES == 500

\* Shortest and longest duration updateAppointment accepts, in minutes.
MIN_UPDATE_DURATION == 1

MAX_UPDATE_DURATION == 240

AppointmentStatus == {"PENDING", "CONFIRMED", "CANCELLED", "COMPLETED"}

\* The patient table: the rows the appointments refer to.
Patients ==
    { [id |-> "p1", firstName |-> "Ana", lastName |-> "Diaz"],
      [id |-> "p2", firstName |-> "Bo", lastName |-> "Chen"] }

PatientOf(pid) == CHOOSE p \in Patients : p.id = pid

subMinutes(t, amount) == t - amount

\* date-fns addMinutes
addMinutes(t, amount) == t + amount

\* ----------------------------------------------------------------- results

\* The record of a call: who called, with what, and what came back.
\*   outcome: "success" (a value or {success: true}), "failure"
\*   ({success: false, error}) or "throw" (an exception reaches the caller);
\*   dbOps: the prisma operations the call performed.
\*   flag: checkConflict's hasConflict.
Result(op, user, req, outcome, error, name, appointment, list, dbOps) ==
    [ op |-> op, user |-> user, req |-> req, outcome |-> outcome,
      error |-> error, name |-> name, flag |-> FALSE,
      appointment |-> appointment, list |-> list, dbOps |-> dbOps ]

NoCall == Result("none", TRUE, None, "none", "", "", None, << >>, {})

\* What a call leaves behind: the table, the id counter and its result.
\* Each action below is the set of the outcomes the call can have in the
\* current state.
Outcome(rows, nid, result) ==
    [ appointments |-> rows, nextId |-> nid, result |-> result ]

Reads(result) == { Outcome(appointments, nextId, result) }

ensureAuthSkipped(user) == TRUE

\* ensureAuth throws UnauthorizedError when supabase.auth.getUser() has no
\* user; every action rethrows it to its caller.
ensureAuth(user) == user

Unauthorized(op, user, req) ==
    Result(op, user, req, "throw", "UnauthorizedError", "", None, << >>, {})

toAppointmentWithPatient(a) ==
    [ id |-> a.id, patientId |-> a.patientId, startTime |-> a.startTime,
      endTime |-> a.endTime, status |-> a.status, type |-> a.type,
      notes |-> a.notes,
      patient |-> [ id |-> PatientOf(a.patientId).id,
                    firstName |-> PatientOf(a.patientId).firstName,
                    lastName |-> PatientOf(a.patientId).lastName,
                    phone |-> "" ] ]

\* ------------------------------------------------------------ the queries

RangeWhereInclusive(a, startDate, endDate, showCancelledArg) ==
    /\ a.startTime <= endDate
    /\ a.endTime >= startDate
    /\ (showCancelledArg \/ a.status # "CANCELLED")

\* The where clause of getAppointmentsByDateRange's findMany.
RangeWhere(a, startDate, endDate, showCancelledArg) ==
    /\ a.startTime < endDate
    /\ a.endTime > startDate
    /\ (showCancelledArg \/ a.status # "CANCELLED")

\* orderBy startTime asc: the orders of the rows of S the database may
\* return (rows with the same startTime come in any order).
RECURSIVE OrderedBy(_)
OrderedBy(S) ==
    IF S = {} THEN { << >> }
    ELSE UNION { { << a >> \o rest : rest \in OrderedBy(S \ {a}) } :
                 a \in { m \in S : \A o \in S : m.startTime <= o.startTime } }

SeqMap(f(_), s) == [ i \in 1..Len(s) |-> f(s[i]) ]

getAppointmentsByDateRange(user, startDate, endDate, showCancelledArg) ==
    LET req == [ startDate |-> startDate, endDate |-> endDate,
                 showCancelled |-> showCancelledArg ]
        op == "getAppointmentsByDateRange"
    IN  IF ~ensureAuth(user)
        THEN Reads(Unauthorized(op, user, req))
        ELSE UNION { Reads(Result(op, user, req, "success", "", "", None,
                                  SeqMap(toAppointmentWithPatient, rows),
                                  {"findMany"})) :
                     rows \in OrderedBy({ a \in appointments :
                       RangeWhere(a, startDate, endDate, showCancelledArg) }) }

ConflictWhereNoExclude(a, startTime, endTime, excludeId) ==
    /\ a.status # "CANCELLED"
    /\ a.startTime < endTime
    /\ a.endTime > startTime

ConflictWhereInclusive(a, startTime, endTime, excludeId) ==
    /\ (excludeId # None => a.id # excludeId[1])
    /\ a.status # "CANCELLED"
    /\ a.startTime <= endTime
    /\ a.endTime >= startTime

ConflictWhereAnyStatus(a, startTime, endTime, excludeId) ==
    /\ (excludeId # None => a.id # excludeId[1])
    /\ a.startTime < endTime
    /\ a.endTime > startTime

\* The where clause of checkConflict's findFirst.
ConflictWhere(a, startTime, endTime, excludeId) ==
    /\ (excludeId # None => a.id # excludeId[1])
    /\ a.status # "CANCELLED"
    /\ a.startTime < endTime
    /\ a.endTime > startTime

\* findFirst has no orderBy: any matching row may be the one returned.
Conflicts(startTime, endTime, excludeId) ==
    { a \in appointments : ConflictWhere(a, startTime, endTime, excludeId) }

checkConflict(user, startTime, endTime, excludeId) ==
    LET req == [ startTime |-> startTime, endTime |-> endTime,
                 excludeId |-> excludeId ]
        op == "checkConflict"
        found == Conflicts(startTime, endTime, excludeId)
    IN  IF ~ensureAuth(user)
        THEN Reads(Unauthorized(op, user, req))
        ELSE IF found = {}
        THEN Reads(Result(op, user, req, "success", "", "", None, << >>,
                          {"findFirst"}))
        ELSE UNION { Reads([ Result(op, user, req, "success", "", "",
                                    Some(toAppointmentWithPatient(c)),
                                    << >>, {"findFirst"})
                             EXCEPT !.flag = TRUE ]) : c \in found }

\* ---------------------------------------------------------- the mutations

\* appointmentSchema.safeParse(data).success, with Date.now() = clock.
SchemaOk(data, clock) ==
    /\ data.patientId # ""
    /\ data.startTime > clock
    /\ data.duration \in APPOINTMENT_DURATIONS
    /\ data.type \in APPOINTMENT_TYPES
    /\ (data.notes # None => data.notes[1].length <= MAX_NOTES)

\* The schema's transform of notes: "" and undefined become undefined.
ParsedNotes(notes) ==
    IF notes = None \/ notes[1].length = 0 THEN None ELSE notes

FullName(w) == w.patient.firstName \o " " \o w.patient.lastName

createAppointment(user, clock, data) ==
    LET op == "createAppointment"
        req == [ data |-> data, clock |-> clock ]
        endTime == addMinutes(data.startTime, data.duration)
        found == Conflicts(data.startTime, endTime, None)
        created == [ id |-> nextId, patientId |-> data.patientId,
                     startTime |-> data.startTime, endTime |-> endTime,
                     status |-> "PENDING", type |-> data.type,
                     notes |-> ParsedNotes(data.notes) ]
    IN  IF ~ensureAuth(user)
        THEN Reads(Unauthorized(op, user, req))
        ELSE IF ~SchemaOk(data, clock)
        THEN Reads(Result(op, user, req, "failure", "invalid", "", None,
                          << >>, {}))
        ELSE IF found # {}
        THEN UNION { Reads(Result(op, user, req, "failure", "occupied",
                                  FullName(toAppointmentWithPatient(c)),
                                  None, << >>, {"findFirst"})) :
                     c \in found }
        ELSE IF nextId > MaxAppts
        THEN {}     \* the table issues no further id
        ELSE { Outcome(appointments \cup {created}, nextId + 1,
                       Result(op, user, req, "success", "", "",
                              Some(toAppointmentWithPatient(created)),
                              << >>, {"findFirst", "create"})) }

RescheduleConflictsNoExclude(id, startTime, endTime) ==
    { a \in appointments : /\ a.status # "CANCELLED"
                           /\ a.startTime < endTime
                           /\ a.endTime > startTime }

\* updateAppointment's conflict check: checkConflict(startTime, endTime, id).
RescheduleConflicts(id, startTime, endTime) ==
    Conflicts(startTime, endTime, Some(id))

durationAboveMaximum(durationMinutes) ==
    durationMinutes > MAX_UPDATE_DURATION

\* durationMinutes < 1 || durationMinutes > 240
durationOutOfRange(durationMinutes) ==
    \/ durationMinutes < MIN_UPDATE_DURATION
    \/ durationMinutes > MAX_UPDATE_DURATION

defaultDurationMinutes(existing) == 30

\* Math.round((endTime - startTime) / 60000) on minute timestamps.
existingDurationMinutes(existing) == existing.endTime - existing.startTime

updateAppointment(user, id, data) ==
    LET op == "updateAppointment"
        req == [ id |-> id, data |-> data ]
        rows == { a \in appointments : a.id = id }
    IN  IF ~ensureAuth(user)
        THEN Reads(Unauthorized(op, user, req))
        ELSE IF rows = {}
        THEN Reads(Result(op, user, req, "failure", "notFound", "", None,
                          << >>, {"findUnique"}))
        ELSE
          LET existing == CHOOSE a \in rows : TRUE
              retime == data.startTime # None \/ data.duration # None
              startTime == IF retime /\ data.startTime # None
                           THEN data.startTime[1] ELSE existing.startTime
              durationMinutes == IF data.duration # None
                                 THEN data.duration[1]
                                 ELSE existingDurationMinutes(existing)
              endTime == IF retime THEN addMinutes(startTime, durationMinutes)
                         ELSE existing.endTime
              found == RescheduleConflicts(id, startTime, endTime)
              updated == [ existing EXCEPT
                             !.startTime = startTime,
                             !.endTime = endTime,
                             !.type = IF data.type # None THEN data.type[1]
                                      ELSE existing.type,
                             !.notes = IF data.notes # None THEN data.notes
                                       ELSE existing.notes ]
          IN  IF retime /\ durationOutOfRange(durationMinutes)
              THEN Reads(Result(op, user, req, "failure", "badDuration", "",
                                None, << >>, {"findUnique"}))
              ELSE IF retime /\ found # {}
              THEN UNION { Reads(Result(op, user, req, "failure", "occupied",
                                        FullName(toAppointmentWithPatient(c)),
                                        None, << >>,
                                        {"findUnique", "findFirst"})) :
                           c \in found }
              ELSE { Outcome((appointments \ {existing}) \cup {updated},
                             nextId,
                             Result(op, user, req, "success", "", "",
                                    Some(toAppointmentWithPatient(updated)),
                                    << >>,
                                    IF retime
                                    THEN {"findUnique", "findFirst", "update"}
                                    ELSE {"findUnique", "update"})) }

deleteAppointmentIfAny(user, id) ==
    IF ~ensureAuth(user)
    THEN Reads(Unauthorized("deleteAppointment", user, [ id |-> id ]))
    ELSE { Outcome({ a \in appointments : a.id # id }, nextId,
                   Result("deleteAppointment", user, [ id |-> id ],
                          "success", "", "", None, << >>, {"delete"})) }

\* prisma.appointment.delete throws when no row has the id; the catch turns
\* it into the generic failure.
deleteAppointment(user, id) ==
    LET op == "deleteAppointment"
        req == [ id |-> id ]
    IN  IF ~ensureAuth(user)
        THEN Reads(Unauthorized(op, user, req))
        ELSE IF \A a \in appointments : a.id # id
        THEN Reads(Result(op, user, req, "failure", "generic", "", None,
                          << >>, {"delete"}))
        ELSE { Outcome({ a \in appointments : a.id # id }, nextId,
                       Result(op, user, req, "success", "", "", None, << >>,
                              {"delete"})) }

allowedWithPending == AppointmentStatus

\* The statuses updateAppointmentStatus accepts.
allowed == {"CONFIRMED", "CANCELLED", "COMPLETED"}

\* prisma.appointment.update throws when no row has the id.
updateAppointmentStatus(user, id, status) ==
    LET op == "updateAppointmentStatus"
        req == [ id |-> id, status |-> status ]
    IN  IF ~ensureAuth(user)
        THEN Reads(Unauthorized(op, user, req))
        ELSE IF status \notin allowed
        THEN Reads(Result(op, user, req, "failure", "badStatus", "", None,
                          << >>, {}))
        ELSE IF \A a \in appointments : a.id # id
        THEN Reads(Result(op, user, req, "failure", "generic", "", None,
                          << >>, {"update"}))
        ELSE { Outcome({ IF a.id = id THEN [a EXCEPT !.status = status]
                         ELSE a : a \in appointments }, nextId,
                       Result(op, user, req, "success", "", "", None, << >>,
                              {"update"})) }

\* ---------------------------------------------------------------- dates
\* A Date is its number of minutes since 1970-01-01 00:00 on the local
\* clock; the local clock has no daylight-saving shifts.  The operators
\* below compute what Date and date-fns compute on such a value.

\* Days since 1970-01-01 of the civil date y-m-d, m counted from 0 as
\* Date counts months.
daysFromCivil(y, m, d) ==
    LET yy  == IF m <= 1 THEN y - 1 ELSE y
        era == yy \div 400
        yoe == yy - era * 400
        mp  == IF m >= 2 THEN m - 2 ELSE m + 10
        doy == (153 * mp + 2) \div 5 + d - 1
        doe == yoe * 365 + yoe \div 4 - yoe \div 100 + doy
    IN  era * 146097 + doe - 719468

\* The civil date of day number z: year, month (from 0) and day of month.
civilFromDays(z) ==
    LET zz  == z + 719468
        era == zz \div 146097
        doe == zz - era * 146097
        yoe == (doe - doe \div 1460 + doe \div 36524 - doe \div 146096)
                 \div 365
        doy == doe - (365 * yoe + yoe \div 4 - yoe \div 100)
        mp  == (5 * doy + 2) \div 153
        d   == doy - (153 * mp + 2) \div 5 + 1
        m   == IF mp < 10 THEN mp + 2 ELSE mp - 10
        y   == yoe + era * 400 + (IF m <= 1 THEN 1 ELSE 0)
    IN  [ year |-> y, month |-> m, date |-> d ]

dayNumber(t) == t \div 1440

timeOfDay(t) == t % 1440

getFullYear(t) == civilFromDays(dayNumber(t)).year

getMonth(t) == civilFromDays(dayNumber(t)).month

getDate(t) == civilFromDays(dayNumber(t)).date

\* Day of the week, 0 for Sunday; 1970-01-01 was a Thursday.
getDay(t) == (dayNumber(t) + 4) % 7

\* new Date(y, m, d) at h:mi.
newDate(y, m, d, h, mi) == daysFromCivil(y, m, d) * 1440 + h * 60 + mi

startOfDay(t) == t - timeOfDay(t)

addDays(t, amount) == t + amount * 1440

addWeeks(t, amount) == addDays(t, amount * 7)

\* The number of days of month m (from 0) of year y.
getDaysInMonth(y, m) ==
    LET ny == IF m = 11 THEN y + 1 ELSE y
        nm == IF m = 11 THEN 0 ELSE m + 1
    IN  daysFromCivil(ny, nm, 1) - daysFromCivil(y, m, 1)

addMonthsOverflow(t, amount) ==
    LET c     == civilFromDays(dayNumber(t))
        index == c.year * 12 + c.month + amount
    IN  (daysFromCivil(index \div 12, index % 12, 1) + c.date - 1) * 1440
          + timeOfDay(t)

\* date-fns addMonths: the same day of the month in the month `amount`
\* months away, or that month's last day when it has no such day; the time
\* of day is kept.
addMonths(t, amount) ==
    LET c     == civilFromDays(dayNumber(t))
        index == c.year * 12 + c.month + amount
        y     == index \div 12
        m     == index % 12
        daysInMonth == getDaysInMonth(y, m)
        d     == IF c.date >= daysInMonth THEN daysInMonth ELSE c.date
    IN  daysFromCivil(y, m, d) * 1440 + timeOfDay(t)

\* date-fns setHours replaces the hour and keeps the minutes.
setHours(t, hours) == startOfDay(t) + hours * 60 + (t % 60)

\* Semaine ISO : lundi = debut de semaine.
WEEK_STARTS_ON == 1

\* date-fns startOfWeek with option weekStartsOn.
startOfWeek(t, weekStartsOn) ==
    LET day  == getDay(t)
        diff == (IF day < weekStartsOn THEN 7 ELSE 0) + day - weekStartsOn
    IN  startOfDay(addDays(t, 0 - diff))

\* date-fns getWeekYear with firstWeekContainsDate = 1: the year whose
\* first week (the week that holds January 1st) has begun at t.
getWeekYear(t, weekStartsOn) ==
    LET year == getFullYear(t)
        startOfNextYear ==
            startOfWeek(newDate(year + 1, 0, 1, 0, 0), weekStartsOn)
        startOfThisYear ==
            startOfWeek(newDate(year, 0, 1, 0, 0), weekStartsOn)
    IN  IF t >= startOfNextYear THEN year + 1
        ELSE IF t >= startOfThisYear THEN year
        ELSE year - 1

startOfWeekYear(t, weekStartsOn) ==
    startOfWeek(newDate(getWeekYear(t, weekStartsOn), 0, 1, 0, 0),
                weekStartsOn)

\* date-fns getWeek: the index of t's week counted from the first week of
\* its week year.
getWeek(t, weekStartsOn) ==
    (startOfWeek(t, weekStartsOn) - startOfWeekYear(t, weekStartsOn))
        \div 10080 + 1

\* Decimal digits, as String(n) and format print them.
Digit(n) ==
    CASE n = 0 -> "0" [] n = 1 -> "1" [] n = 2 -> "2" [] n = 3 -> "3"
      [] n = 4 -> "4" [] n = 5 -> "5" [] n = 6 -> "6" [] n = 7 -> "7"
      [] n = 8 -> "8" [] n = 9 -> "9"

\* String(n).padStart(2, "0") for 0 <= n <= 99; format's "MM" and "dd".
padStart2(n) == Digit(n \div 10) \o Digit(n % 10)

\* format(date, "yyyy") for a four-digit year.
formatYear(t) ==
    padStart2(getFullYear(t) \div 100) \o padStart2(getFullYear(t) % 100)

formatMonth(t) == padStart2(getMonth(t) + 1)

formatDate(t) == padStart2(getDate(t))

\* ----------------------------------------------------- the calendar store

ViewModes == {"day", "week", "month"}

\* format(date, "yyyy-MM-dd")
cacheKeyDay(date) ==
    formatYear(date) \o "-" \o formatMonth(date) \o "-" \o formatDate(date)

\* The calendar year of the date, then the week that getWeek counts.
cacheKeyWeek(date) ==
    formatYear(date) \o "-W" \o padStart2(getWeek(date, WEEK_STARTS_ON))

\* format(date, "yyyy-MM")
cacheKeyMonth(date) == formatYear(date) \o "-" \o formatMonth(date)

getCacheKeyForView(pivot, mode) ==
    CASE mode = "day" -> cacheKeyDay(pivot)
      [] mode = "week" -> cacheKeyWeek(pivot)
      [] mode = "month" -> cacheKeyMonth(pivot)
      [] OTHER -> cacheKeyDay(pivot)

\* startOfDay(new Date()), the clock reading `now`.
getInitialPivotDate(now) == startOfDay(now)

\* appointmentsCache: {} of the initial state.
EmptyCache == [ k \in {} |-> << >> ]

\* The state of the store, as its middleware sees it.
storeState ==
    [ pivotDate |-> pivotDate, viewMode |-> viewMode,
      showCancelled |-> showCancelled,
      appointmentsCache |-> appointmentsCache ]

partializeWithPivotDate(state) ==
    [ viewMode |-> state.viewMode, showCancelled |-> state.showCancelled,
      pivotDate |-> state.pivotDate ]

\* Ne persister que les preferences de vue, pas pivotDate ni cache.
partialize(state) ==
    [ viewMode |-> state.viewMode, showCancelled |-> state.showCancelled ]

\* persist: every set of the store writes the partialized state to the
\* storage.
persist == persisted' = Some(partialize(storeState'))

goToNext ==
    /\ pivotDate' = (CASE viewMode = "day" -> addDays(pivotDate, 1)
                       [] viewMode = "week" -> addWeeks(pivotDate, 1)
                       [] viewMode = "month" -> addMonths(pivotDate, 1)
                       [] OTHER -> addDays(pivotDate, 1))
    /\ UNCHANGED << viewMode, showCancelled, appointmentsCache >>
    /\ persist

goToPreviousByDay ==
    /\ pivotDate' = addDays(pivotDate, 0 - 1)
    /\ UNCHANGED << viewMode, showCancelled, appointmentsCache >>
    /\ persist

goToPrevious ==
    /\ pivotDate' = (CASE viewMode = "day" -> addDays(pivotDate, 0 - 1)
                       [] viewMode = "week" -> addWeeks(pivotDate, 0 - 1)
                       [] viewMode = "month" -> addMonths(pivotDate, 0 - 1)
                       [] OTHER -> addDays(pivotDate, 0 - 1))
    /\ UNCHANGED << viewMode, showCancelled, appointmentsCache >>
    /\ persist

goToToday(now) ==
    /\ pivotDate' = getInitialPivotDate(now)
    /\ UNCHANGED << viewMode, showCancelled, appointmentsCache >>
    /\ persist

setDateAsGiven(date) ==
    /\ pivotDate' = date
    /\ UNCHANGED << viewMode, showCancelled, appointmentsCache >>
    /\ persist

setDate(date) ==
    /\ pivotDate' = startOfDay(date)
    /\ UNCHANGED << viewMode, showCancelled, appointmentsCache >>
    /\ persist

setViewMode(mode) ==
    /\ viewMode' = mode
    /\ UNCHANGED << pivotDate, showCancelled, appointmentsCache >>
    /\ persist

toggleShowCancelled ==
    /\ showCancelled' = ~showCancelled
    /\ UNCHANGED << pivotDate, viewMode, appointmentsCache >>
    /\ persist

\* { ...state.appointmentsCache, [key]: list }
withEntry(cache, key, list) ==
    [ k \in DOMAIN cache \cup {key} |-> IF k = key THEN list ELSE cache[k] ]

setAppointmentsOfView(key, list) ==
    /\ appointmentsCache' =
         withEntry(appointmentsCache,
                   getCacheKeyForView(pivotDate, viewMode), list)
    /\ UNCHANGED << pivotDate, viewMode, showCancelled >>
    /\ persist

setAppointments(key, list) ==
    /\ appointmentsCache' = withEntry(appointmentsCache, key, list)
    /\ UNCHANGED << pivotDate, viewMode, showCancelled >>
    /\ persist

\* cache[key] ?? null: None stands for null, Some(list) for the list.
cachedOrNull(cache, key) ==
    IF key \in DOMAIN cache THEN Some(cache[key]) ELSE None

getAppointmentsEmptyIsNull(key) ==
    IF key \in DOMAIN appointmentsCache /\ appointmentsCache[key] # << >>
    THEN Some(appointmentsCache[key]) ELSE None

getAppointments(key) == cachedOrNull(appointmentsCache, key)

clearCacheOfView ==
    /\ appointmentsCache' =
         [ k \in DOMAIN appointmentsCache
                   \ {getCacheKeyForView(pivotDate, viewMode)} |->
             appointmentsCache[k] ]
    /\ UNCHANGED << pivotDate, viewMode, showCancelled >>
    /\ persist

clearCache ==
    /\ appointmentsCache' = EmptyCache
    /\ UNCHANGED << pivotDate, viewMode, showCancelled >>
    /\ persist

\* The value of field `name` after the store is created: the one the
\* storage holds, or else the one of the initial state.
rehydrated(name, initial) ==
    IF persisted # None /\ name \in DOMAIN persisted[1]
    THEN persisted[1][name] ELSE initial

\* create(persist(...)): the initial state, the clock reading `now`, with
\* the stored fields merged over it.  The middleware may write the
\* merged state back.
createStore(now) ==
    /\ pivotDate' = rehydrated("pivotDate", getInitialPivotDate(now))
    /\ viewMode' = rehydrated("viewMode", "week")
    /\ showCancelled' = rehydrated("showCancelled", FALSE)
    /\ appointmentsCache' = rehydrated("appointmentsCache", EmptyCache)
    /\ persisted' \in { persisted, Some(partialize(storeState')) }

\* The clock reading when the application is loaded.
BootTime == newDate(2026, 0, 31, 10, 5)

\* ------------------------------------------------ the scheduling service

\* The calls below are <<user, ...arguments>>: user is whether
\* supabase.auth.getUser() finds a user for that call, clock is the
\* Date.now() the call reads.

StartTimes == {100, 115}

Ids == 1..MaxAppts

BaseData ==
    [ patientId |-> "p1", startTime |-> 100, duration |-> 15,
      type |-> "Suivi", notes |-> None ]

CreateInputs ==
    { [ BaseData EXCEPT !.patientId = p, !.startTime = t, !.duration = d ] :
        p \in {"p1", "p2"}, t \in StartTimes, d \in {15, 30} }
    \cup { [ BaseData EXCEPT !.patientId = "" ],
           [ BaseData EXCEPT !.duration = 20 ],
           [ BaseData EXCEPT !.type = "Autre" ],
           [ BaseData EXCEPT !.notes =
                 Some([ text |-> "long", length |-> 501 ]) ] }

CreateCalls ==
    ({TRUE} \X {0} \X CreateInputs)
    \cup { << TRUE, 100, BaseData >>, << FALSE, 0, BaseData >> }

NoChange ==
    [ startTime |-> None, duration |-> None, type |-> None, notes |-> None ]

\* The edit form submits all its fields, the patient included.
FormData ==
    [ patientId |-> Some("p2"), startTime |-> Some(115), duration |-> None,
      type |-> Some("Suivi"), notes |-> None ]

UpdateInputs ==
    { [ NoChange EXCEPT !.startTime = t, !.duration = d ] :
        t \in {None} \cup { Some(x) : x \in StartTimes },
        d \in {None, Some(15), Some(30)} }
    \cup { [ NoChange EXCEPT !.duration = Some(0) ],
           [ NoChange EXCEPT !.duration = Some(241) ],
           FormData }

UpdateCalls ==
    ({TRUE} \X Ids \X UpdateInputs) \cup { << FALSE, 1, NoChange >> }

DeleteCalls == ({TRUE} \X Ids) \cup { << FALSE, 1 >> }

StatusCalls ==
    ({TRUE} \X Ids \X AppointmentStatus) \cup { << FALSE, 1, "CANCELLED" >> }

Windows == { << 100, 115 >>, << 115, 130 >>, << 100, 130 >>, << 115, 145 >> }

CheckCalls ==
    ({TRUE} \X Windows \X {None, Some(1)})
    \cup { << FALSE, << 100, 115 >>, None >> }

ListCalls ==
    ({TRUE} \X Windows \X BOOLEAN) \cup { << FALSE, << 100, 115 >>, FALSE >> }

\* The sessions that call the service at the same time, and a session
\* with no call in progress.
Sessions == {"s1", "s2"}

Idle == [ pc |-> "idle" ]

Init ==
    /\ appointments = {}
    /\ nextId = 1
    /\ last = NoCall
    /\ pivotDate = getInitialPivotDate(BootTime)
    /\ viewMode = "week"
    /\ showCancelled = FALSE
    /\ appointmentsCache = EmptyCache
    /\ storeLog = << >>
    /\ persisted = None
    /\ fetches = {}
    /\ pending = None
    /\ clicks = 0
    /\ fetchedBy = EmptyCache
    /\ calls = [ s \in Sessions |-> Idle ]

\* The call's outcome o takes effect: the table changes and the result is
\* on its way to the caller.
Respond(o) ==
    /\ appointments' = o.appointments
    /\ nextId' = o.nextId
    /\ last' = o.result
    /\ UNCHANGED calls

\* The calls run one at a time: the caller awaits a call's result before
\* it makes the next one.
Create == /\ last = NoCall
          /\ \E c \in CreateCalls :
               \E o \in createAppointment(c[1], c[2], c[3]) : Respond(o)
          /\ UNCHANGED << storeVars, pageVars >>

Update == /\ last = NoCall
          /\ \E c \in UpdateCalls :
               \E o \in updateAppointment(c[1], c[2], c[3]) : Respond(o)
          /\ UNCHANGED << storeVars, pageVars >>

Delete == /\ last = NoCall
          /\ \E c \in DeleteCalls :
               \E o \in deleteAppointment(c[1], c[2]) : Respond(o)
          /\ UNCHANGED << storeVars, pageVars >>

SetStatus == /\ last = NoCall
             /\ \E c \in StatusCalls :
                  \E o \in updateAppointmentStatus(c[1], c[2], c[3]) :
                     Respond(o)
             /\ UNCHANGED << storeVars, pageVars >>

Check == /\ last = NoCall
         /\ \E c \in CheckCalls :
              \E o \in checkConflict(c[1], c[2][1], c[2][2], c[3]) :
                 Respond(o)
         /\ UNCHANGED << storeVars, pageVars >>

List == /\ last = NoCall
        /\ \E c \in ListCalls :
             \E o \in getAppointmentsByDateRange(c[1], c[2][1], c[2][2],
                                                 c[3]) : Respond(o)
        /\ UNCHANGED << storeVars, pageVars >>

\* The caller has taken the result of its call.
Return == /\ last # NoCall
          /\ last' = NoCall
          /\ UNCHANGED << appointments, nextId, calls, storeVars, pageVars >>

Next ==
    \/ Create
    \/ Update
    \/ Delete
    \/ SetStatus
    \/ Check
    \/ List
    \/ Return

Spec == Init /\ [][Next]_vars

\* ------------------------------------------------ concurrent bookings
\* createAppointment called from two sessions at once.  The function
\* awaits checkConflict and then awaits prisma.appointment.create: other
\* calls run between the two.

\* createAppointment up to the answer of its checkConflict.
createAppointmentChecks(user, clock, data) ==
    LET op == "createAppointment"
        req == [ data |-> data, clock |-> clock ]
        endTime == addMinutes(data.startTime, data.duration)
    IN  IF ~ensureAuth(user)
        THEN [ pc |-> "done", data |-> data, found |-> {},
               result |-> Unauthorized(op, user, req) ]
        ELSE IF ~SchemaOk(data, clock)
        THEN [ pc |-> "done", data |-> data, found |-> {},
               result |-> Result(op, user, req, "failure", "invalid", "",
                                 None, << >>, {}) ]
        ELSE [ pc |-> "checked", data |-> data,
               found |-> Conflicts(data.startTime, endTime, None),
               result |-> Result(op, user, req, "none", "", "", None,
                                 << >>, {"findFirst"}) ]

\* An insert that looks for conflicts again, in one transaction.
createAppointmentInsertsChecked(call) ==
    LET data == call.data
        endTime == addMinutes(data.startTime, data.duration)
        found == call.found \cup Conflicts(data.startTime, endTime, None)
        created == [ id |-> nextId, patientId |-> data.patientId,
                     startTime |-> data.startTime, endTime |-> endTime,
                     status |-> "PENDING", type |-> data.type,
                     notes |-> ParsedNotes(data.notes) ]
    IN  IF found # {}
        THEN UNION { Reads([ call.result EXCEPT
                               !.outcome = "failure", !.error = "occupied",
                               !.name =
                                 FullName(toAppointmentWithPatient(c)) ]) :
                     c \in found }
        ELSE IF nextId > MaxAppts
        THEN {}
        ELSE { Outcome(appointments \cup {created}, nextId + 1,
                       [ call.result EXCEPT
                           !.outcome = "success",
                           !.appointment =
                             Some(toAppointmentWithPatient(created)),
                           !.dbOps = {"findFirst", "create"} ]) }

\* createAppointment from the answer of checkConflict on.
createAppointmentInserts(call) ==
    LET data == call.data
        endTime == addMinutes(data.startTime, data.duration)
        created == [ id |-> nextId, patientId |-> data.patientId,
                     startTime |-> data.startTime, endTime |-> endTime,
                     status |-> "PENDING", type |-> data.type,
                     notes |-> ParsedNotes(data.notes) ]
    IN  IF call.found # {}
        THEN UNION { Reads([ call.result EXCEPT
                               !.outcome = "failure", !.error = "occupied",
                               !.name =
                                 FullName(toAppointmentWithPatient(c)) ]) :
                     c \in call.found }
        ELSE IF nextId > MaxAppts
        THEN {}     \* the table issues no further id
        ELSE { Outcome(appointments \cup {created}, nextId + 1,
                       [ call.result EXCEPT
                           !.outcome = "success",
                           !.appointment =
                             Some(toAppointmentWithPatient(created)),
                           !.dbOps = {"findFirst", "create"} ]) }

RaceInputs ==
    { BaseData,
      [ BaseData EXCEPT !.duration = 30 ],
      [ BaseData EXCEPT !.startTime = 115, !.patientId = "p2" ],
      [ BaseData EXCEPT !.duration = 20 ] }

\* A session calls createAppointment; the call runs up to its check.
CallCreate ==
    /\ \E s \in Sessions, user \in BOOLEAN, data \in RaceInputs :
         /\ calls[s] = Idle
         /\ calls' = [ calls EXCEPT
                         ![s] = createAppointmentChecks(user, 0, data) ]
    /\ UNCHANGED << appointments, nextId, last, storeVars, pageVars >>

\* A call that has its check's answer goes on to its end.
InsertCreated ==
    /\ \E s \in Sessions :
         /\ calls[s].pc = "checked"
         /\ \E o \in createAppointmentInserts(calls[s]) :
              /\ appointments' = o.appointments
              /\ nextId' = o.nextId
              /\ calls' = [ calls EXCEPT
                              ![s] = [ calls[s] EXCEPT
                                         !.pc = "done",
                                         !.result = o.result ] ]
    /\ UNCHANGED << last, storeVars, pageVars >>

\* The session has taken the result of its call.
TakeResult ==
    /\ \E s \in Sessions :
         /\ calls[s].pc = "done"
         /\ calls' = [ calls EXCEPT ![s] = Idle ]
    /\ UNCHANGED << appointments, nextId, last, storeVars, pageVars >>

NextRace ==
    \/ CallCreate
    \/ InsertCreated
    \/ TakeResult

SpecRace == Init /\ [][NextRace]_vars

\* ------------------------------------------- bookings and their edits
\* createAppointment and updateAppointment alone, called by an
\* authenticated user, with updates of every field and durations around
\* the limits.

BookInputs ==
    { BaseData,
      [ BaseData EXCEPT !.startTime = 400, !.duration = 60 ],
      [ BaseData EXCEPT !.startTime = 400, !.duration = 20 ] }

EditInputs ==
    { [ NoChange EXCEPT !.startTime = t, !.duration = d ] :
        t \in {None, Some(115)},
        d \in {None, Some(0 - 15), Some(0), Some(1), Some(240), Some(241)} }
    \cup { [ NoChange EXCEPT !.type = Some("Urgence") ],
           [ NoChange EXCEPT !.type = Some("Autre") ],
           [ NoChange EXCEPT !.notes = Some([ text |-> "ok", length |-> 2 ]) ],
           [ NoChange EXCEPT !.notes =
                 Some([ text |-> "long", length |-> 501 ]) ] }

Book == /\ last = NoCall
        /\ \E data \in BookInputs :
             \E o \in createAppointment(TRUE, 0, data) : Respond(o)
        /\ UNCHANGED << storeVars, pageVars >>

Edit == /\ last = NoCall
        /\ \E id \in Ids, data \in EditInputs :
             \E o \in updateAppointment(TRUE, id, data) : Respond(o)
        /\ UNCHANGED << storeVars, pageVars >>

NextEdit ==
    \/ Book
    \/ Edit
    \/ Return

SpecEdit == Init /\ [][NextEdit]_vars

\* --------------------------------------------- the calendar store, alone
\* The store driven through its actions by any caller; storeLog keeps the
\* calls made, in order.

\* Number of store actions in a run.
MaxLog == 4

\* Clock readings of the session.
Clocks == { BootTime, newDate(2026, 1, 1, 8, 0) }

\* Dates handed to setDate.
PickedDates == { newDate(2026, 0, 27, 14, 45), newDate(2026, 2, 31, 9, 0) }

StoreKeys == { cacheKeyDay(BootTime), cacheKeyWeek(BootTime) }

SampleRow(id, startTime) ==
    toAppointmentWithPatient(
        [ id |-> id, patientId |-> "p1", startTime |-> startTime,
          endTime |-> addMinutes(startTime, 30), status |-> "PENDING",
          type |-> "Suivi", notes |-> None ])

StoreLists ==
    { << >>,
      << SampleRow(1, setHours(BootTime, 11)) >>,
      << SampleRow(1, setHours(BootTime, 11)),
         SampleRow(2, setHours(BootTime, 14)) >> }

\* The call is logged with its arguments: the key and the list of
\* setAppointments, the date of setDate, the clock reading of goToToday
\* and of a reload.
Logged(action, key, list, date) ==
    /\ Len(storeLog) < MaxLog
    /\ storeLog' = Append(storeLog,
                          [ action |-> action, key |-> key, list |-> list,
                            date |-> date ])
    /\ UNCHANGED << serverVars, pageVars >>

GoToNext == goToNext /\ Logged("goToNext", "", << >>, Some(pivotDate))

GoToPrevious ==
    goToPrevious /\ Logged("goToPrevious", "", << >>, Some(pivotDate))

GoToToday ==
    \E now \in Clocks :
        goToToday(now) /\ Logged("goToToday", "", << >>, Some(now))

SetDate ==
    \E date \in PickedDates :
        setDate(date) /\ Logged("setDate", "", << >>, Some(date))

SetViewMode ==
    \E mode \in ViewModes :
        setViewMode(mode) /\ Logged("setViewMode", "", << >>, None)

ToggleShowCancelled ==
    toggleShowCancelled /\ Logged("toggleShowCancelled", "", << >>, None)

SetAppointments ==
    \E key \in StoreKeys, list \in StoreLists :
        setAppointments(key, list)
          /\ Logged("setAppointments", key, list, None)

ClearCache == clearCache /\ Logged("clearCache", "", << >>, None)

\* The application is loaded again.
Reload ==
    \E now \in Clocks :
        createStore(now) /\ Logged("reload", "", << >>, Some(now))

NextStore ==
    \/ GoToNext
    \/ GoToPrevious
    \/ GoToToday
    \/ SetDate
    \/ SetViewMode
    \/ ToggleShowCancelled
    \/ SetAppointments
    \/ ClearCache
    \/ Reload

SpecStore == Init /\ [][NextStore]_vars

\* ------------------------------------------------------ the calendar page
\* One browser tab showing the calendar page: the header's buttons, the
\* page's effect that fetches on a cache miss, and the two modals' handlers.
\* A Server Action runs on the server at some moment between its call and
\* the continuation of its caller.

\* Number of user actions in a run, the opening of the page included.
MaxClicks == 3

GRID_START_HOUR == 8

GRID_END_HOUR == 20

getDateRange(pivot, mode) ==
    IF mode = "day"
    THEN [ startDate |-> setHours(pivot, GRID_START_HOUR),
           endDate |-> setHours(pivot, GRID_END_HOUR) ]
    ELSE LET startOfWeekDate == startOfWeek(pivot, 1)
         IN  [ startDate |-> setHours(startOfWeekDate, GRID_START_HOUR),
               endDate |-> setHours(addDays(startOfWeekDate, 6),
                                    GRID_END_HOUR) ]

\* fetchAndCache up to its await: the request it sends and the key it will
\* store the answer under.
fetchAndCache(pivot, mode, showCancelledArg, cacheKey) ==
    [ n |-> CHOOSE i \in 1..(Cardinality(fetches) + 1) :
              /\ \A f \in fetches : f.n # i
              /\ \A j \in 1..(i - 1) : \E f \in fetches : f.n = j,
      key |-> cacheKey,
      startDate |-> getDateRange(pivot, mode).startDate,
      endDate |-> getDateRange(pivot, mode).endDate,
      showCancelled |-> showCancelledArg,
      issued |-> clicks',
      delivered |-> 0,
      phase |-> "sent",
      list |-> << >> ]

\* The page's effect, run with the store as the step leaves it: fetch
\* unless the view's key is cached.
useEffect ==
    LET cacheKey == getCacheKeyForView(pivotDate', viewMode')
    IN  fetches' =
          IF cachedOrNull(appointmentsCache', cacheKey) # None
          THEN fetches
          ELSE fetches \cup { fetchAndCache(pivotDate', viewMode',
                                            showCancelled', cacheKey) }

\* A user action on the open page.
Click ==
    /\ clicks >= 1
    /\ clicks < MaxClicks
    /\ clicks' = clicks + 1

\* The page is opened: first render, first run of the effect.
Mount ==
    /\ clicks = 0
    /\ clicks' = 1
    /\ UNCHANGED << pivotDate, viewMode, showCancelled, appointmentsCache,
                    persisted >>
    /\ useEffect
    /\ UNCHANGED << serverVars, storeLog, pending, fetchedBy >>

\* A new pivotDate is a new Date object: the effect runs again.
ClickPrevious ==
    /\ Click
    /\ goToPrevious
    /\ useEffect
    /\ UNCHANGED << serverVars, storeLog, pending, fetchedBy >>

ClickToday ==
    /\ Click
    /\ \E now \in Clocks : goToToday(now)
    /\ useEffect
    /\ UNCHANGED << serverVars, storeLog, pending, fetchedBy >>

ClickNext ==
    /\ Click
    /\ goToNext
    /\ useEffect
    /\ UNCHANGED << serverVars, storeLog, pending, fetchedBy >>

\* Setting the mode the store already has renders nothing.
ClickViewMode ==
    /\ Click
    /\ \E mode \in ViewModes :
         /\ setViewMode(mode)
         /\ IF mode = viewMode THEN fetches' = fetches ELSE useEffect
    /\ UNCHANGED << serverVars, storeLog, pending, fetchedBy >>

ToggleCancelled ==
    /\ Click
    /\ toggleShowCancelled
    /\ useEffect
    /\ UNCHANGED << serverVars, storeLog, pending, fetchedBy >>

\* getAppointmentsByDateRange runs on the server for the fetch f.
Serve ==
    /\ \E f \in fetches, user \in BOOLEAN :
         /\ f.phase = "sent"
         /\ \E o \in getAppointmentsByDateRange(user, f.startDate, f.endDate,
                                                 f.showCancelled) :
              fetches' = (fetches \ {f}) \cup
                { [ f EXCEPT !.phase = IF o.result.outcome = "success"
                                       THEN "served" ELSE "failed",
                             !.list = o.result.list ] }
    /\ UNCHANGED << serverVars, storeVars, pending, clicks, fetchedBy >>

\* fetchAndCache after its await: the list goes into the cache under the
\* key of the call.
Deliver ==
    /\ \E f \in fetches :
         /\ f.phase = "served"
         /\ setAppointments(f.key, f.list)
         /\ fetchedBy' = withEntry(fetchedBy, f.key,
                                   [ f EXCEPT !.delivered = clicks ])
         /\ fetches' = fetches \ {f}
    /\ UNCHANGED << serverVars, storeLog, pending, clicks >>

\* The await of fetchAndCache rejects: nothing is stored.
Reject ==
    /\ \E f \in fetches :
         /\ f.phase = "failed"
         /\ fetches' = fetches \ {f}
    /\ UNCHANGED << serverVars, storeVars, pending, clicks, fetchedBy >>

\* The slots the user books, and the form the modal submits.
PageSlots == { setHours(startOfDay(BootTime), 11),
               setHours(startOfDay(BootTime), 11) + 30 }

FormValues ==
    { [ patientId |-> "p1", startTime |-> t, duration |-> 30,
        type |-> "Suivi", notes |-> None ] : t \in PageSlots }

\* The form's values as updateAppointment receives them.
EditData(values) ==
    [ startTime |-> Some(values.startTime),
      duration |-> Some(values.duration),
      type |-> Some(values.type), notes |-> values.notes ]

\* The ids of the appointments the page has shown.
Shown == 1..(nextId - 1)

\* The Server Action's outcome o has happened; its caller awaits the result.
Await(o) ==
    /\ appointments' = o.appointments
    /\ nextId' = o.nextId
    /\ pending' = Some(o.result)
    /\ UNCHANGED << last, calls, storeVars, fetches, fetchedBy >>

\* onSubmit of the modal in creation mode, up to the result of its call;
\* the form's resolver has accepted the values.
SubmitCreate ==
    /\ Click
    /\ pending = None
    /\ \E user \in BOOLEAN, now \in Clocks, values \in FormValues :
         /\ SchemaOk(values, now)
         /\ \E o \in createAppointment(user, now, values) : Await(o)

\* onSubmit of the modal in edit mode, up to the result of its call.
SubmitEdit ==
    /\ Click
    /\ pending = None
    /\ \E user \in BOOLEAN, now \in Clocks, id \in Shown,
          values \in FormValues :
         /\ SchemaOk(values, now)
         /\ \E o \in updateAppointment(user, id, EditData(values)) : Await(o)

\* handleStatusChange up to the result of its call.  The modal shows the
\* appointment as the page last fetched it, so its buttons follow a status
\* the row may no longer have.
ClickStatus ==
    /\ Click
    /\ pending = None
    /\ \E user \in BOOLEAN, id \in Shown,
          status \in {"CONFIRMED", "CANCELLED", "COMPLETED"} :
         \E o \in updateAppointmentStatus(user, id, status) : Await(o)

\* handleDelete, confirmed, up to the result of its call.
ClickDelete ==
    /\ Click
    /\ pending = None
    /\ \E user \in BOOLEAN, id \in Shown :
         \E o \in deleteAppointment(user, id) : Await(o)

\* The handler continues with the result: on success it clears the cache;
\* on a failure it shows the error; a thrown error ends it.
Resume ==
    /\ pending # None
    /\ IF pending[1].outcome = "success"
       THEN clearCache /\ fetchedBy' = EmptyCache
       ELSE UNCHANGED << pivotDate, viewMode, showCancelled,
                         appointmentsCache, persisted, fetchedBy >>
    /\ pending' = None
    /\ UNCHANGED << serverVars, storeLog, fetches, clicks >>

NextPage ==
    \/ Mount
    \/ ClickPrevious
    \/ ClickToday
    \/ ClickNext
    \/ ClickViewMode
    \/ ToggleCancelled
    \/ Serve
    \/ Deliver
    \/ Reject
    \/ SubmitCreate
    \/ SubmitEdit
    \/ ClickStatus
    \/ ClickDelete
    \/ Resume

SpecPage == Init /\ [][NextPage]_vars

\* The page with its pending work carried on: a request sent is answered,
\* an answer is handled, a handler that has its result continues.  The
\* user is not bound to do anything.
SpecPageLive ==
    /\ SpecPage
    /\ WF_vars(Serve)
    /\ WF_vars(Deliver)
    /\ WF_vars(Reject)
    /\ WF_vars(Resume)

\* The page opened on a later visit: the store is created with the
\* preferences an earlier visit has left in the storage.
StoredPreferences ==
    { [ viewMode |-> m, showCancelled |-> c ] :
        m \in ViewModes, c \in BOOLEAN }

InitVisit ==
    /\ persisted \in { Some(p) : p \in StoredPreferences }
    /\ pivotDate = rehydrated("pivotDate", getInitialPivotDate(BootTime))
    /\ viewMode = rehydrated("viewMode", "week")
    /\ showCancelled = rehydrated("showCancelled", FALSE)
    /\ appointmentsCache = rehydrated("appointmentsCache", EmptyCache)
    /\ appointments = {}
    /\ nextId = 1
    /\ last = NoCall
    /\ storeLog = << >>
    /\ fetches = {}
    /\ pending = None
    /\ clicks = 0
    /\ fetchedBy = EmptyCache
    /\ calls = [ s \in Sessions |-> Idle ]

SpecVisit == InitVisit /\ [][NextPage]_vars

\* ------------------------------------------------ the pure functions
\* getCacheKeyForView and the grid utilities, each applied to arguments
\* drawn from a sample; `last` holds the latest application.

\* Dates around a change of year and a change of month.
SampleDates ==
    { newDate(2025, 0, 1, 9, 0),    newDate(2025, 11, 28, 23, 59),
      newDate(2025, 11, 29, 0, 0),  newDate(2025, 11, 31, 12, 0),
      newDate(2026, 0, 1, 0, 0),    newDate(2026, 0, 1, 18, 30),
      newDate(2026, 0, 4, 23, 0),   newDate(2026, 0, 5, 8, 0),
      newDate(2026, 0, 31, 10, 5),  newDate(2026, 1, 1, 0, 0) }

\* The keys of two views, as the page computes them for two pivot dates.
KeysOfViews ==
    /\ \E a \in SampleDates, b \in SampleDates,
          modeA \in ViewModes, modeB \in ViewModes :
         last' = [ op |-> "getCacheKeyForView",
                   a |-> a, modeA |-> modeA,
                   keyA |-> getCacheKeyForView(a, modeA),
                   b |-> b, modeB |-> modeB,
                   keyB |-> getCacheKeyForView(b, modeB) ]
    /\ UNCHANGED << appointments, nextId, calls, storeVars, pageVars >>

\* Plage horaire de la grille : 8h a 20h = 12h = 720 minutes.
GRID_TOTAL_MINUTES == 12 * 60

getHours(t) == timeOfDay(t) \div 60

getMinutes(t) == t % 60

\* A percentage is kept as the fraction num / den, which is exact; the
\* functions return it printed in front of "%".
Percent(num, den) == [ num |-> num, den |-> den, unit |-> "%" ]

MathMax(a, b) == IF a >= b THEN a ELSE b

MathMin(a, b) == IF a <= b THEN a ELSE b

calculateTop(dateTime) ==
    LET hours == getHours(dateTime)
        minutes == getMinutes(dateTime)
        totalMinutes == (hours - GRID_START_HOUR) * 60 + minutes
    IN  Percent(MathMax(0, MathMin(100 * GRID_TOTAL_MINUTES,
                                   totalMinutes * 100)),
                GRID_TOTAL_MINUTES)

calculateHeight(durationMinutes) ==
    Percent(MathMin(100 * GRID_TOTAL_MINUTES, durationMinutes * 100),
            GRID_TOTAL_MINUTES)

\* Math.round of the fraction num / den, den > 0: the nearest integer, a
\* half going up.
MathRound(num, den) == (2 * num + den) \div (2 * den)

\* The arguments are instants in milliseconds, as getTime() gives them.
getDurationMinutes(startTime, endTime) ==
    MathRound(endTime - startTime, 60 * 1000)

\* Times of day on the day of BootTime, inside and outside the grid.
GridTimes ==
    { setHours(startOfDay(BootTime), h) + m :
        h \in {0, 7, 8, 9, 12, 14, 19, 20, 21, 23}, m \in {0, 30, 59} }

\* Durations in minutes, those of bookings and others.
GridDurations == { 0 - 800, 0 - 30, 0 - 1, 0, 1, 15, 30, 60, 240, 719, 720,
                   721, 800 }

\* Instants in milliseconds since midnight: 09:30, 09:59:30, 10:00,
\* 10:00:29.999, 10:00:30, 10:30, 10:30:29.999, 10:30:30, 11:00.
Instants == { 34200000, 35970000, 36000000, 36029999, 36030000,
              37800000, 37829999, 37830000, 39600000 }

CalculateTop ==
    /\ \E t \in GridTimes :
         last' = [ op |-> "calculateTop", dateTime |-> t,
                   percentage |-> calculateTop(t) ]
    /\ UNCHANGED << appointments, nextId, calls, storeVars, pageVars >>

CalculateHeight ==
    /\ \E d \in GridDurations :
         last' = [ op |-> "calculateHeight", durationMinutes |-> d,
                   percentage |-> calculateHeight(d) ]
    /\ UNCHANGED << appointments, nextId, calls, storeVars, pageVars >>

GetDurationMinutes ==
    /\ \E s \in Instants, e \in Instants :
         last' = [ op |-> "getDurationMinutes", startTime |-> s,
                   endTime |-> e, minutes |-> getDurationMinutes(s, e) ]
    /\ UNCHANGED << appointments, nextId, calls, storeVars, pageVars >>

NextUtil ==
    \/ KeysOfViews
    \/ CalculateTop
    \/ CalculateHeight
    \/ GetDurationMinutes

SpecUtil == Init /\ [][NextUtil]_vars

\* ------------------------------------------------------------------ claims

Overlap(s1, e1, s2, e2) == s1 < e2 /\ e1 > s2

Live(a) == a.status # "CANCELLED"

\* The rows a candidate interval collides with, as the specification words
\* it: not cancelled, not the excluded one, strictly overlapping.
Blocking(rows, s, e, excluded) ==
    { a \in rows : /\ Live(a)
                   /\ a.id \notin excluded
                   /\ Overlap(a.startTime, a.endTime, s, e) }

NameOf(pid) ==
    LET p == CHOOSE q \in Patients : q.id = pid
    IN  p.firstName \o " " \o p.lastName

\* A createAppointment request that passes validation.
ValidCreate(r) ==
    /\ r.op = "createAppointment"
    /\ r.user
    /\ r.req.data.patientId # ""
    /\ r.req.data.startTime > r.req.clock
    /\ r.req.data.duration \in {15, 30, 45, 60}
    /\ r.req.data.type \in {"Premiere consultation", "Suivi", "Urgence"}
    /\ (r.req.data.notes # None => r.req.data.notes[1].length <= 500)

\* The row a successful create adds for request r.
CreatedBy(r, rows) ==
    { a \in rows : /\ a.patientId = r.req.data.patientId
                   /\ a.startTime = r.req.data.startTime
                   /\ a.endTime = r.req.data.startTime + r.req.data.duration
                   /\ a.status = "PENDING"
                   /\ r.appointment # None
                   /\ r.appointment[1].id = a.id }

\* C1: no two distinct non-cancelled appointments of the table overlap.
C1_NoOverlap ==
    \A a \in appointments, b \in appointments :
        (a.id # b.id /\ Live(a) /\ Live(b))
            => ~Overlap(a.startTime, a.endTime, b.startTime, b.endTime)

\* C2: checkConflict reports a conflict exactly when a non-cancelled row
\* other than the excluded one strictly overlaps the interval, and the row
\* it returns is one of those.
C2_CheckConflictExact ==
    (last.op = "checkConflict" /\ last.outcome = "success") =>
        LET ex == IF last.req.excludeId = None THEN {}
                  ELSE {last.req.excludeId[1]}
            blocking == Blocking(appointments, last.req.startTime,
                                 last.req.endTime, ex)
        IN  /\ last.flag <=> blocking # {}
            /\ last.flag <=> last.appointment # None
            /\ last.flag =>
                 \E a \in blocking :
                    /\ last.appointment[1].id = a.id
                    /\ last.appointment[1].startTime = a.startTime
                    /\ last.appointment[1].endTime = a.endTime
                    /\ last.appointment[1].status = a.status

\* C2 happens: no conflict is reported although a live row ends exactly
\* where the interval starts and a cancelled row lies inside the interval.
C2_Witness ==
    /\ last.op = "checkConflict"
    /\ last.outcome = "success"
    /\ ~last.flag
    /\ \E a \in appointments : Live(a) /\ a.endTime = last.req.startTime
    /\ \E a \in appointments :
          /\ ~Live(a)
          /\ Overlap(a.startTime, a.endTime, last.req.startTime,
                     last.req.endTime)

\* C2, the blocking statuses: a conflict is reported with a COMPLETED row.
C2_WitnessCompleted ==
    /\ last.op = "checkConflict"
    /\ last.flag
    /\ last.appointment[1].status = "COMPLETED"

\* C3: a valid create whose interval strictly overlaps no live row
\* succeeds and adds the row; one that overlaps a live row fails naming
\* the patient of such a row and leaves the table as it was.
C3_CreateConflictRule ==
    [][ ValidCreate(last') =>
          LET d == last'.req.data
              blocking == Blocking(appointments, d.startTime,
                                   d.startTime + d.duration, {})
          IN  IF blocking = {}
              THEN /\ last'.outcome = "success"
                   /\ \E a \in CreatedBy(last', appointments') :
                         appointments' = appointments \cup {a}
              ELSE /\ last'.outcome = "failure"
                   /\ last'.error = "occupied"
                   /\ last'.name \in { NameOf(a.patientId) : a \in blocking }
                   /\ appointments' = appointments ]_vars

\* C3 happens: a create succeeded right after (or right before) a live
\* appointment of the table.
C3_Witness ==
    /\ ValidCreate(last)
    /\ last.outcome = "success"
    /\ \E a \in appointments :
          /\ Live(a)
          /\ a.id # last.appointment[1].id
          /\ \/ a.endTime = last.appointment[1].startTime
             \/ a.startTime = last.appointment[1].endTime

\* C3, the refusal: a create failed on a partial overlap, naming a patient
\* other than the requested one.
C3_WitnessRefused ==
    /\ ValidCreate(last)
    /\ last.outcome = "failure"
    /\ last.name # NameOf(last.req.data.patientId)
    /\ \E a \in appointments :
          /\ Live(a)
          /\ a.startTime < last.req.data.startTime
          /\ a.endTime > last.req.data.startTime
          /\ a.endTime < last.req.data.startTime + last.req.data.duration

\* C4: a valid create whose interval covers a cancelled appointment's
\* interval and overlaps no live one succeeds.
C4_CancelledSlotIsFree ==
    [][ ( /\ ValidCreate(last')
          /\ \E c \in appointments :
                /\ c.status = "CANCELLED"
                /\ last'.req.data.startTime <= c.startTime
                /\ c.endTime <= last'.req.data.startTime
                                    + last'.req.data.duration
          /\ Blocking(appointments, last'.req.data.startTime,
                      last'.req.data.startTime + last'.req.data.duration,
                      {}) = {} )
        => ( /\ last'.outcome = "success"
             /\ CreatedBy(last', appointments') # {} ) ]_vars

\* C4 happens: a create succeeded over the interval of a cancelled
\* appointment.
C4_Witness ==
    /\ ValidCreate(last)
    /\ last.outcome = "success"
    /\ \E c \in appointments :
          /\ c.status = "CANCELLED"
          /\ last.appointment[1].startTime <= c.startTime
          /\ c.endTime <= last.appointment[1].endTime

Terminal == {"CANCELLED", "COMPLETED"}

\* C5: an appointment whose status is CANCELLED or COMPLETED keeps that
\* status as long as it is in the table.
C5_TerminalIsFinal ==
    [][ \A a \in appointments, b \in appointments' :
          (a.id = b.id /\ a.status \in Terminal) => b.status = a.status ]_vars

\* C6: a reschedule with a duration in range succeeds when its new
\* interval overlaps no live appointment other than the one moved, and
\* fails leaving the table as it was when it overlaps another one.
C6_RescheduleExcludesSelf ==
    [][ ( /\ last'.op = "updateAppointment"
          /\ last'.user
          /\ \E a \in appointments : a.id = last'.req.id
          /\ \/ last'.req.data.startTime # None
             \/ last'.req.data.duration # None )
        =>
          LET d == last'.req.data
              old == CHOOSE a \in appointments : a.id = last'.req.id
              s == IF d.startTime # None THEN d.startTime[1]
                   ELSE old.startTime
              m == IF d.duration # None THEN d.duration[1]
                   ELSE old.endTime - old.startTime
              others == Blocking(appointments, s, s + m, {old.id})
          IN  (m >= 1 /\ m <= 240) =>
                IF others = {}
                THEN /\ last'.outcome = "success"
                     /\ \E b \in appointments' :
                           /\ b.id = old.id
                           /\ b.startTime = s
                           /\ b.endTime = s + m
                ELSE /\ last'.outcome = "failure"
                     /\ last'.error = "occupied"
                     /\ appointments' = appointments ]_vars

\* C6 happens: an appointment's duration alone was changed (so the new
\* interval overlaps the one it had) next to another live appointment.
C6_Witness ==
    /\ last.op = "updateAppointment"
    /\ last.outcome = "success"
    /\ last.req.data.startTime = None
    /\ last.req.data.duration = Some(30)
    /\ \E a \in appointments :
          /\ Live(a)
          /\ a.id # last.req.id
          /\ a.endTime = last.appointment[1].startTime

\* C7: a call without an authenticated user throws UnauthorizedError to
\* its caller, performs no operation on the table and changes no row.
C7_UnauthorizedPropagates ==
    /\ [] ( (last.op # "none" /\ ~last.user) =>
               /\ last.outcome = "throw"
               /\ last.error = "UnauthorizedError"
               /\ last.dbOps = {} )
    /\ [][ ~last'.user => appointments' = appointments ]_vars

\* C7 happens: a delete of a stored appointment was called without a user.
C7_Witness ==
    /\ last.op = "deleteAppointment"
    /\ ~last.user
    /\ \E a \in appointments : a.id = last.req.id

ProbeKeys ==
    { getCacheKeyForView(d, m) :
        d \in { BootTime, addDays(BootTime, 1), addWeeks(BootTime, 1) },
        m \in ViewModes }

KnownKeys == ProbeKeys \cup DOMAIN appointmentsCache

Successful(call) == call # None /\ call[1].outcome = "success"

\* C9: when a modal handler continues with the successful result of a
\* create, a reschedule, a status change or a delete, it leaves the cache
\* empty: getAppointments returns null for every key, whatever was cached
\* before.  From then on a key gets a list again only when a fetch of the
\* page stores, under its key, the list the server returned to it.
C9_MutationClearsCache ==
    /\ [][ (Successful(pending) /\ pending' = None) =>
             \A k \in KnownKeys : getAppointments(k)' = None ]_vars
    /\ [][ \A k \in KnownKeys \cup DOMAIN appointmentsCache' :
             (getAppointments(k) = None /\ getAppointments(k)' # None) =>
               \E f \in fetches :
                 /\ f.phase = "served"
                 /\ f.key = k
                 /\ f \notin fetches'
                 /\ getAppointments(k)' = Some(f.list) ]_vars

\* C9 witness: each kind of mutation has succeeded on the server while a
\* list is cached, and its handler is about to continue.
C9_Witness ==
    /\ Successful(pending)
    /\ pending[1].op = "updateAppointment"
    /\ \E k \in DOMAIN appointmentsCache : appointmentsCache[k] # << >>

C9_WitnessCreate ==
    /\ Successful(pending)
    /\ pending[1].op = "createAppointment"
    /\ DOMAIN appointmentsCache # {}

C9_WitnessStatus ==
    /\ Successful(pending)
    /\ pending[1].op = "updateAppointmentStatus"
    /\ DOMAIN appointmentsCache # {}

C9_WitnessDelete ==
    /\ Successful(pending)
    /\ pending[1].op = "deleteAppointment"
    /\ DOMAIN appointmentsCache # {}

\* The cache is filled again after a mutation emptied it.
C9_WitnessRefetched ==
    /\ pending = None
    /\ appointments # {}
    /\ \E k \in DOMAIN appointmentsCache :
         \E i \in 1..Len(appointmentsCache[k]) :
            appointmentsCache[k][i].id \in { a.id : a \in appointments }

\* What the calls logged so far make of key k: the list of the latest
\* setAppointments(k, .) after the latest clearCache (or the latest
\* creation of the store), or null.
LastWrite(log, k) ==
    LET clears == { i \in 1..Len(log) :
                      log[i].action \in {"clearCache", "reload"} }
        since == IF clears = {} THEN 0
                 ELSE CHOOSE i \in clears : \A j \in clears : j <= i
        writes == { i \in (since + 1)..Len(log) :
                      log[i].action = "setAppointments" /\ log[i].key = k }
    IN  IF writes = {} THEN None
        ELSE Some(log[CHOOSE i \in writes : \A j \in writes : j <= i].list)

\* C10: after any sequence of store actions, getAppointments(k) is null
\* exactly when no setAppointments(k, .) was called since the last
\* clearCache (or since the store was created), and otherwise it is the
\* list of the most recent setAppointments(k, .), an empty list included;
\* so a setAppointments on one key changes no other key's answer.
C10_CacheReadsLastWrite ==
    \A k \in KnownKeys : getAppointments(k) = LastWrite(storeLog, k)

\* C10 witness: after a clearCache one key was given an empty list and
\* another key a list of rows; the first reads as the empty list, not null.
C10_Witness ==
    /\ \E i \in 1..Len(storeLog) : storeLog[i].action = "clearCache"
    /\ \E k1, k2 \in StoreKeys :
         /\ k1 # k2
         /\ getAppointments(k1) = Some(<< >>)
         /\ getAppointments(k2) # None
         /\ getAppointments(k2) # Some(<< >>)
    /\ \E k \in ProbeKeys : getAppointments(k) = None

\* The latest store action logged, once there is one.
Latest == storeLog[Len(storeLog)]

\* The step is a call of one of the store actions named.
Called(actions) ==
    /\ Len(storeLog') = Len(storeLog) + 1
    /\ storeLog'[Len(storeLog')].action \in actions

\* The length of month m (from 0) of year y, from the calendar's rule.
CalendarDaysIn(y, m) ==
    IF m = 1
    THEN (IF (y % 4 = 0 /\ y % 100 # 0) \/ y % 400 = 0 THEN 29 ELSE 28)
    ELSE IF m \in {3, 5, 8, 10} THEN 30 ELSE 31

\* Date `to` is one unit of the mode away from date `from`, forward
\* (dir = 1) or backward (dir = -1).
OneUnitAway(from, to, mode, dir) ==
    LET a == civilFromDays(dayNumber(from))
        b == civilFromDays(dayNumber(to))
        months == a.year * 12 + a.month + dir
        last_ == CalendarDaysIn(months \div 12, months % 12)
    IN  /\ timeOfDay(to) = timeOfDay(from)
        /\ CASE mode = "week" -> dayNumber(to) = dayNumber(from) + 7 * dir
              [] mode = "month" ->
                   /\ b.year * 12 + b.month = months
                   /\ b.date = IF a.date > last_ THEN last_ ELSE a.date
              [] OTHER -> dayNumber(to) = dayNumber(from) + dir

\* C11: goToNext and goToPrevious move pivotDate by exactly one unit of
\* the current view mode (a day, seven days, or the same day of the
\* adjacent month, the month's last day when it has no such day) and
\* change neither the view mode, nor the filter, nor the cache.
C11_StepsOneUnit ==
    [][ /\ Called({"goToNext"}) =>
              /\ OneUnitAway(pivotDate, pivotDate', viewMode, 1)
              /\ UNCHANGED << viewMode, showCancelled, appointmentsCache >>
        /\ Called({"goToPrevious"}) =>
              /\ OneUnitAway(pivotDate, pivotDate', viewMode, 0 - 1)
              /\ UNCHANGED << viewMode, showCancelled, appointmentsCache >>
      ]_vars

\* C11 witness: goToNext in month mode from January 31 has landed on
\* February 28.
C11_Witness ==
    /\ Len(storeLog) = 2
    /\ storeLog[1].action = "setViewMode"
    /\ Latest.action = "goToNext"
    /\ viewMode = "month"
    /\ pivotDate = newDate(2026, 1, 28, 0, 0)

\* goToPrevious in month mode from March 31 has landed on February 28.
C11_WitnessPrevious ==
    /\ Len(storeLog) = 3
    /\ storeLog[2].action = "setDate"
    /\ Latest.action = "goToPrevious"
    /\ storeLog[1].action = "setViewMode"
    /\ viewMode = "month"
    /\ pivotDate = newDate(2026, 1, 28, 0, 0)

\* Two dates fall in the same window of a view mode: the same calendar
\* day, the same Monday-to-Sunday week, the same calendar month.
SameWindow(a, b, mode) ==
    CASE mode = "day" -> dayNumber(a) = dayNumber(b)
      [] mode = "week" -> (dayNumber(a) + 3) \div 7 = (dayNumber(b) + 3) \div 7
      [] mode = "month" ->
           /\ civilFromDays(dayNumber(a)).year = civilFromDays(dayNumber(b)).year
           /\ civilFromDays(dayNumber(a)).month = civilFromDays(dayNumber(b)).month

\* C12: in one view mode two pivot dates get the same key exactly when
\* they fall in the same window of that mode, and the keys of two
\* different modes are never the same.
C12_KeysPartitionWindows ==
    last.op = "getCacheKeyForView" =>
      IF last.modeA = last.modeB
      THEN (last.keyA = last.keyB) <=> SameWindow(last.a, last.b, last.modeA)
      ELSE last.keyA # last.keyB

\* The part of C12 that the day and month keys, and keys of different
\* modes, satisfy.
C12_DayAndMonthKeys ==
    (last.op = "getCacheKeyForView"
       /\ ~(last.modeA = "week" /\ last.modeB = "week")) =>
      IF last.modeA = last.modeB
      THEN (last.keyA = last.keyB) <=> SameWindow(last.a, last.b, last.modeA)
      ELSE last.keyA # last.keyB

\* Monday 2025-12-29 and Thursday 2026-01-01 are in one week and have the
\* keys 2025-W01 and 2026-W01.
C12_OneWeekTwoKeys ==
    /\ last.op = "getCacheKeyForView"
    /\ last.modeA = "week" /\ last.modeB = "week"
    /\ last.a = newDate(2025, 11, 29, 0, 0)
    /\ last.b = newDate(2026, 0, 1, 0, 0)
    /\ last.keyA = "2025-W01" /\ last.keyB = "2026-W01"

\* Wednesday 2025-01-01 and Monday 2025-12-29 are a year apart and both
\* have the key 2025-W01.
C12_TwoWeeksOneKey ==
    /\ last.op = "getCacheKeyForView"
    /\ last.modeA = "week" /\ last.modeB = "week"
    /\ last.a = newDate(2025, 0, 1, 9, 0)
    /\ last.b = newDate(2025, 11, 29, 0, 0)
    /\ last.keyA = "2025-W01" /\ last.keyB = "2025-W01"

\* The percentage p lies in [0, 100].
WithinRange(p) == p.num >= 0 /\ p.num <= 100 * p.den

\* C15: calculateTop and calculateHeight return a percentage within
\* [0, 100] for every input; calculateTop gives 0 before 08:00 and 100 from
\* 20:00 on; calculateHeight stays within [0, 100] for durations above 720
\* minutes and for zero and negative durations.
C15_PercentWithinRange ==
    /\ last.op = "calculateTop" =>
          /\ WithinRange(last.percentage)
          /\ timeOfDay(last.dateTime) < 8 * 60 => last.percentage.num = 0
          /\ timeOfDay(last.dateTime) >= 20 * 60 =>
                last.percentage.num = 100 * last.percentage.den
    /\ last.op = "calculateHeight" => WithinRange(last.percentage)

\* The part of C15 that holds: calculateTop on every time of day, and
\* calculateHeight on the durations that are not negative.
C15_TopAndPositiveHeights ==
    /\ last.op = "calculateTop" =>
          /\ WithinRange(last.percentage)
          /\ timeOfDay(last.dateTime) < 8 * 60 => last.percentage.num = 0
          /\ timeOfDay(last.dateTime) >= 20 * 60 =>
                last.percentage.num = 100 * last.percentage.den
    /\ (last.op = "calculateHeight" /\ last.durationMinutes >= 0) =>
          WithinRange(last.percentage)

\* calculateHeight(-30) has returned a percentage below 0.
C15_NegativeHeight ==
    /\ last.op = "calculateHeight"
    /\ last.durationMinutes = 0 - 30
    /\ last.percentage.num < 0

\* n is the integer nearest to diff / 60000, the upper one of two.
NearestMinute(diff, n) ==
    /\ 2 * diff >= 2 * n * 60000 - 60000
    /\ 2 * diff < 2 * n * 60000 + 60000

\* C16: getDurationMinutes(start, end) is (end - start) / 60000 rounded to
\* the nearest integer, a half minute going up, and it is never negative.
C16_RoundedNonNegative ==
    last.op = "getDurationMinutes" =>
      /\ NearestMinute(last.endTime - last.startTime, last.minutes)
      /\ last.minutes >= 0

\* The part of C16 that holds: the rounding, for every pair of instants.
C16_Rounded ==
    last.op = "getDurationMinutes" =>
      NearestMinute(last.endTime - last.startTime, last.minutes)

\* 10:00 to 10:30:30 has given 31 minutes.
C16_HalfMinuteUp ==
    /\ last.op = "getDurationMinutes"
    /\ last.startTime = 36000000 /\ last.endTime = 37830000
    /\ last.minutes = 31

\* 10:30 to 10:00 has given -30 minutes.
C16_Negative ==
    /\ last.op = "getDurationMinutes"
    /\ last.startTime = 37800000 /\ last.endTime = 36000000
    /\ last.minutes = 0 - 30

\* The date argument of the call the step makes.
CalledDate == storeLog'[Len(storeLog')].date[1]

\* Midnight of the day of date d.
Midnight(d) == dayNumber(d) * 1440

\* C13: a reload keeps viewMode and showCancelled as they were before it,
\* sets pivotDate to the start of the current day and leaves the cache
\* empty, whatever navigation and cache writes came before.
C13_ReloadKeepsPreferencesOnly ==
    [][ Called({"reload"}) =>
          /\ viewMode' = viewMode
          /\ showCancelled' = showCancelled
          /\ pivotDate' = Midnight(CalledDate)
          /\ \A k \in KnownKeys : getAppointments(k)' = None ]_vars

\* C13 witness: the view mode was changed, a list was cached and the
\* pivot was moved; the reload has kept the mode and dropped the rest.
C13_Witness ==
    /\ Len(storeLog) = 4
    /\ storeLog[1].action = "setViewMode"
    /\ storeLog[2].action = "setAppointments"
    /\ storeLog[2].list # << >>
    /\ storeLog[3].action = "goToNext"
    /\ Latest.action = "reload"
    /\ viewMode = "day"
    /\ pivotDate = Midnight(Latest.date[1])
    /\ DOMAIN appointmentsCache = {}

\* The filter was switched on before the reload and is on after it.
C13_WitnessFilter ==
    /\ Len(storeLog) = 3
    /\ storeLog[1].action = "toggleShowCancelled"
    /\ storeLog[2].action = "setDate"
    /\ Latest.action = "reload"
    /\ showCancelled
    /\ viewMode = "week"
    /\ pivotDate = Midnight(Latest.date[1])

\* C14: pivotDate is the start of a day in every state the store
\* reaches; goToToday sets it to the start of the current day in every
\* view mode, setDate(d) to the start of d's day, and goToNext and
\* goToPrevious keep its time of day.
C14_PivotIsStartOfDay ==
    /\ [](timeOfDay(pivotDate) = 0)
    /\ [][ Called({"goToToday", "setDate"}) =>
              pivotDate' = Midnight(CalledDate) ]_vars
    /\ [][ Called({"goToNext", "goToPrevious"}) =>
              timeOfDay(pivotDate') = timeOfDay(pivotDate) ]_vars

\* C14 witness: in month mode setDate was given 2026-01-27 14:45 and the
\* pivot is 2026-01-27 00:00.
C14_Witness ==
    /\ Len(storeLog) >= 2
    /\ Latest.action = "setDate"
    /\ Latest.date = Some(newDate(2026, 0, 27, 14, 45))
    /\ viewMode = "month"
    /\ pivotDate = newDate(2026, 0, 27, 0, 0)

\* goToToday in day mode, at 08:00 of February 1st, after a move away.
C14_WitnessToday ==
    /\ Len(storeLog) >= 3
    /\ Latest.action = "goToToday"
    /\ Latest.date = Some(newDate(2026, 1, 1, 8, 0))
    /\ viewMode = "day"
    /\ pivotDate = newDate(2026, 1, 1, 0, 0)

\* The step is an authenticated call of action op on an id that no stored
\* appointment has.
OnMissingId(op) ==
    /\ last = NoCall
    /\ last' # NoCall
    /\ last'.op = op
    /\ last'.user
    /\ \A a \in appointments : a.id # last'.req.id

\* C19: an authenticated call on an id that is not in the store returns
\* a failure result instead of throwing and leaves the store as it was:
\* updateAppointment answers that the appointment was not found,
\* deleteAppointment and updateAppointmentStatus (asked for one of the
\* statuses it accepts) answer with their generic message.
C19_MissingIdFails ==
    [][ /\ OnMissingId("updateAppointment") =>
              /\ last'.outcome = "failure" /\ last'.error = "notFound"
              /\ appointments' = appointments
        /\ OnMissingId("deleteAppointment") =>
              /\ last'.outcome = "failure" /\ last'.error = "generic"
              /\ appointments' = appointments
        /\ OnMissingId("updateAppointmentStatus") =>
              /\ last'.outcome = "failure"
              /\ last'.req.status \in allowed => last'.error = "generic"
              /\ appointments' = appointments ]_vars

\* C19 witness: deleteAppointment was called on the id of a deleted
\* appointment while another appointment is stored, and has failed.
C19_Witness ==
    /\ last.op = "deleteAppointment"
    /\ last.user
    /\ last.outcome = "failure"
    /\ last.error = "generic"
    /\ last.req.id < nextId
    /\ appointments # {}
    /\ \A a \in appointments : a.id # last.req.id

C19_WitnessUpdate ==
    /\ last.op = "updateAppointment"
    /\ last.user
    /\ last.outcome = "failure"
    /\ last.error = "notFound"
    /\ appointments # {}
    /\ \A a \in appointments : a.id # last.req.id

C19_WitnessStatus ==
    /\ last.op = "updateAppointmentStatus"
    /\ last.user
    /\ last.outcome = "failure"
    /\ last.error = "generic"
    /\ appointments # {}
    /\ \A a \in appointments : a.id # last.req.id

\* The step is an authenticated call of updateAppointment on a stored
\* appointment.
EditsStored ==
    /\ last = NoCall
    /\ last' # NoCall
    /\ last'.op = "updateAppointment"
    /\ last'.user
    /\ \E a \in appointments : a.id = last'.req.id

\* The appointment the step's call is about, as stored before and after.
Before == CHOOSE a \in appointments : a.id = last'.req.id

After == CHOOSE a \in appointments' : a.id = last'.req.id

\* The call asks for a new start or a new duration.
Retimes == last'.req.data.startTime # None \/ last'.req.data.duration # None

\* The duration the call resolves to: the one supplied, or else the one
\* the appointment has.
ResolvedDuration ==
    IF last'.req.data.duration # None THEN last'.req.data.duration[1]
    ELSE Before.endTime - Before.startTime

\* C17: a reschedule whose resolved duration is below 1 or above 240
\* minutes is refused with a validation failure and the stored
\* appointment is unchanged.
C17_DurationLimits ==
    [][ (EditsStored /\ Retimes
           /\ (ResolvedDuration < 1 \/ ResolvedDuration > 240)) =>
          /\ last'.outcome = "failure"
          /\ last'.error = "badDuration"
          /\ appointments' = appointments ]_vars

\* C17 witness: a duration of 241 minutes was refused.
C17_Witness ==
    /\ last.op = "updateAppointment"
    /\ last.req.data.duration = Some(241)
    /\ last.outcome = "failure"
    /\ last.error = "badDuration"
    /\ \E a \in appointments : a.id = last.req.id

\* A duration of 0 minutes, with a new start, was refused.
C17_WitnessZero ==
    /\ last.op = "updateAppointment"
    /\ last.req.data.duration = Some(0)
    /\ last.req.data.startTime # None
    /\ last.outcome = "failure"
    /\ last.error = "badDuration"
    /\ \E a \in appointments : a.id = last.req.id

\* C18: an update with neither a new start nor a new duration is refused
\* with a validation failure, the stored appointment unchanged, when its
\* type is not one of the consultation types or its notes are longer than
\* allowed.
C18_OtherFieldsValidated ==
    [][ (EditsStored /\ ~Retimes
           /\ \/ /\ last'.req.data.type # None
                  /\ last'.req.data.type[1] \notin APPOINTMENT_TYPES
              \/ /\ last'.req.data.notes # None
                  /\ last'.req.data.notes[1].length > MAX_NOTES) =>
          /\ last'.outcome = "failure"
          /\ appointments' = appointments ]_vars

\* An appointment is stored with a type that is not a consultation type.
C18_StoredUnknownType ==
    \E a \in appointments : a.type \notin APPOINTMENT_TYPES

\* An appointment is stored with notes longer than allowed.
C18_StoredLongNotes ==
    \E a \in appointments : a.notes # None /\ a.notes[1].length > MAX_NOTES

\* C20: every stored appointment ends after it starts; the one a
\* createAppointment stores ends a duration of 15, 30, 45 or 60 minutes
\* after its start, and the one a reschedule stores ends between 1 and 240
\* minutes after its start, by the resolved duration.
C20_EndAfterStart ==
    /\ [](\A a \in appointments : a.endTime > a.startTime)
    /\ [][ (last = NoCall /\ last' # NoCall
              /\ last'.op = "createAppointment"
              /\ last'.outcome = "success") =>
             \E a \in appointments' \ appointments :
                /\ a.startTime = last'.req.data.startTime
                /\ a.endTime = a.startTime + last'.req.data.duration
                /\ last'.req.data.duration \in {15, 30, 45, 60} ]_vars
    /\ [][ (EditsStored /\ Retimes /\ last'.outcome = "success") =>
             /\ After.endTime = After.startTime + ResolvedDuration
             /\ ResolvedDuration >= 1
             /\ ResolvedDuration <= 240 ]_vars

\* C20 witness: one appointment was rescheduled to last 1 minute and one
\* to last 240 minutes.
C20_Witness ==
    /\ \E a \in appointments : a.endTime = a.startTime + 1
    /\ \E a \in appointments : a.endTime = a.startTime + 240
    /\ last.op = "updateAppointment"
    /\ last.outcome = "success"

\* An appointment of 60 minutes was created.
C20_WitnessCreated ==
    /\ last.op = "createAppointment"
    /\ last.outcome = "success"
    /\ last.req.data.duration = 60
    /\ \E a \in appointments :
          a.id = last.appointment[1].id /\ a.endTime = a.startTime + 60

\* The step is a call of the action `second` that directly follows a call
\* of the action `first`.
Follows(first, second) ==
    /\ Len(storeLog) >= 1
    /\ Len(storeLog') = Len(storeLog) + 1
    /\ Latest.action = first
    /\ storeLog'[Len(storeLog')].action = second

\* The pivot date before the first of the two calls, and between them.
Original == Latest.date[1]

Intermediate == pivotDate

\* The original day of the month exists in the intermediate month.
DayExists ==
    getDate(Original)
      <= CalendarDaysIn(getFullYear(Intermediate), getMonth(Intermediate))

\* After the second call the pivot is back at the original date, or, in
\* month mode when the original day does not exist in the intermediate
\* month, at the intermediate month's last day number in the original
\* month.
RoundTrip ==
    IF viewMode \in {"day", "week"} \/ DayExists
    THEN pivotDate' = Original
    ELSE /\ pivotDate' # Original
         /\ getFullYear(pivotDate') = getFullYear(Original)
         /\ getMonth(pivotDate') = getMonth(Original)
         /\ getDate(pivotDate') =
              CalendarDaysIn(getFullYear(Intermediate), getMonth(Intermediate))
         /\ getDate(pivotDate') < getDate(Original)
         /\ timeOfDay(pivotDate') = timeOfDay(Original)

\* C30: goToNext directly followed by goToPrevious, and goToPrevious
\* directly followed by goToNext, restore the pivot date in day and week
\* mode; in month mode they restore it exactly when the original day of
\* the month exists in the intermediate month, and otherwise lower the day
\* of the month to the last day number of the intermediate month.
C30_NextPreviousRoundTrip ==
    [][ (Follows("goToNext", "goToPrevious")
           \/ Follows("goToPrevious", "goToNext")) => RoundTrip ]_vars

\* C30 witness: in month mode January 31, next then previous, is
\* January 28.
C30_Witness ==
    /\ Len(storeLog) >= 2
    /\ storeLog[Len(storeLog) - 1].action = "goToNext"
    /\ storeLog[Len(storeLog) - 1].date = Some(newDate(2026, 0, 31, 0, 0))
    /\ Latest.action = "goToPrevious"
    /\ viewMode = "month"
    /\ pivotDate = newDate(2026, 0, 28, 0, 0)

\* In month mode March 31, previous then next, is March 28.
C30_WitnessPreviousNext ==
    /\ Len(storeLog) >= 2
    /\ storeLog[Len(storeLog) - 1].action = "goToPrevious"
    /\ storeLog[Len(storeLog) - 1].date = Some(newDate(2026, 2, 31, 0, 0))
    /\ Latest.action = "goToNext"
    /\ viewMode = "month"
    /\ pivotDate = newDate(2026, 2, 28, 0, 0)

\* In month mode January 27, next then previous, is January 27 again.
C30_WitnessRestored ==
    /\ Len(storeLog) >= 2
    /\ storeLog[Len(storeLog) - 1].action = "goToNext"
    /\ storeLog[Len(storeLog) - 1].date = Some(newDate(2026, 0, 27, 0, 0))
    /\ Latest.action = "goToPrevious"
    /\ viewMode = "month"
    /\ pivotDate = newDate(2026, 0, 27, 0, 0)

\* The step is an authenticated call of updateAppointmentStatus asking for
\* a status other than CONFIRMED, CANCELLED and COMPLETED.
AsksOtherStatus ==
    /\ last = NoCall
    /\ last' # NoCall
    /\ last'.op = "updateAppointmentStatus"
    /\ last'.user
    /\ last'.req.status \notin {"CONFIRMED", "CANCELLED", "COMPLETED"}

\* C27: no step sets the status of a stored appointment to PENDING: an
\* appointment that is PENDING after a step was PENDING before it or has
\* just been created; updateAppointmentStatus asked for a status other
\* than CONFIRMED, CANCELLED and COMPLETED returns a failure and leaves
\* every appointment as it was.
C27_NeverBackToPending ==
    [][ /\ \A b \in appointments' :
              b.status = "PENDING" =>
                \A a \in appointments : a.id = b.id => a.status = "PENDING"
        /\ AsksOtherStatus =>
              /\ last'.outcome = "failure"
              /\ appointments' = appointments ]_vars

\* C27 witness: PENDING was asked for an appointment that is CONFIRMED,
\* and was refused.
C27_Witness ==
    /\ last.op = "updateAppointmentStatus"
    /\ last.user
    /\ last.req.status = "PENDING"
    /\ last.outcome = "failure"
    /\ last.error = "badStatus"
    /\ \E a \in appointments :
          a.id = last.req.id /\ a.status = "CONFIRMED"

\* An appointment that has left PENDING was updated by updateAppointment
\* and keeps its status.
C27_WitnessUpdated ==
    /\ last.op = "updateAppointment"
    /\ last.outcome = "success"
    /\ \E a \in appointments :
          a.id = last.req.id /\ a.status = "COMPLETED"

\* The step is a call of updateAppointment.
Edits ==
    /\ last = NoCall
    /\ last' # NoCall
    /\ last'.op = "updateAppointment"

\* Appointment b is appointment a but for its start, end, type and notes.
SameButTimesTypeNotes(a, b) ==
    b = [ a EXCEPT !.startTime = b.startTime, !.endTime = b.endTime,
                   !.type = b.type, !.notes = b.notes ]

\* C28: updateAppointment changes at most the start, end, type and notes
\* of the appointment with the id it was given: that appointment keeps
\* its id, status and patient, whatever patient the data names, every
\* other appointment is unchanged, none is added or removed, and when the
\* data gives a new start and no duration the appointment starts there
\* and lasts as long as before.
C28_UpdateFrame ==
    [][ Edits =>
          /\ \A a \in appointments :
                IF a.id = last'.req.id
                THEN \E b \in appointments' : SameButTimesTypeNotes(a, b)
                ELSE a \in appointments'
          /\ Cardinality(appointments') = Cardinality(appointments)
          /\ ( /\ last'.outcome = "success"
               /\ last'.req.data.startTime # None
               /\ last'.req.data.duration = None ) =>
                /\ After.startTime = last'.req.data.startTime[1]
                /\ After.endTime - After.startTime
                     = Before.endTime - Before.startTime ]_vars

\* C28 witness: a confirmed appointment of patient p1 that lasts 30
\* minutes was moved by data that names patient p2 and no duration, while
\* another appointment is stored.
C28_Witness ==
    /\ last.op = "updateAppointment"
    /\ last.outcome = "success"
    /\ last.req.data = FormData
    /\ Cardinality(appointments) = 2
    /\ \E a \in appointments :
          /\ a.id = last.req.id
          /\ a.patientId = "p1"
          /\ a.status = "CONFIRMED"
          /\ a.type = "Suivi"
          /\ a.startTime = 115
          /\ a.endTime = 145

\* The key of the view the page shows.
CurrentKey == getCacheKeyForView(pivotDate, viewMode)

\* The page has a list to serve for the view it shows.
Serves == clicks >= 1 /\ getAppointments(CurrentKey) # None

\* C21: when the page serves a cached list, the list was fetched with the
\* value showCancelled has now.
C21_ServedWithCurrentFilter ==
    Serves => fetchedBy[CurrentKey].showCancelled = showCancelled

\* The list fetched without the cancelled appointments is served while
\* showCancelled is true.
C21_ServedWithOtherFilter ==
    /\ Serves
    /\ showCancelled
    /\ ~fetchedBy[CurrentKey].showCancelled

\* C23: a response never replaces, under its key, the list of a fetch
\* that was issued after its own: once two fetches of one key have both
\* completed, the key holds the list of the one issued later.
C23_LaterFetchWins ==
    [][ \A k \in DOMAIN fetchedBy \cap DOMAIN fetchedBy' :
          fetchedBy'[k].issued >= fetchedBy[k].issued ]_vars

\* The list the service returns now for the request of the fetch f.
Fresh(f, list) ==
    \E o \in getAppointmentsByDateRange(TRUE, f.startDate, f.endDate,
                                         f.showCancelled) :
       o.result.list = list

\* C24: while no handler is between its Server Action and its
\* continuation, every list in the cache is what the service returns now
\* for the request that fetched it: no list read before the latest
\* successful mutation is in the cache.
C24_NoStaleListAfterClear ==
    pending = None =>
      \A k \in DOMAIN appointmentsCache :
         Fresh(fetchedBy[k], appointmentsCache[k])

\* An empty list, fetched before the appointment of the view's window was
\* created and delivered after the creation's clearCache, is served.
C24_StaleListServed ==
    /\ pending = None
    /\ Serves
    /\ appointmentsCache[CurrentKey] = << >>
    /\ fetchedBy[CurrentKey].showCancelled
    /\ \E a \in appointments :
          /\ a.startTime >= fetchedBy[CurrentKey].startDate
          /\ a.endTime <= fetchedBy[CurrentKey].endDate

\* C29: a fetch is issued with the key and the range of the pivot date
\* and view mode of the moment and keeps them while in flight; its
\* response is stored under that key and changes no other entry, whatever
\* view the page shows by then.
C29_StoredUnderIssuedKey ==
    [][ /\ \A f \in fetches' \ fetches :
              IF f.phase = "sent"
              THEN /\ f.key = getCacheKeyForView(pivotDate', viewMode')
                   /\ f.startDate
                        = getDateRange(pivotDate', viewMode').startDate
                   /\ f.endDate = getDateRange(pivotDate', viewMode').endDate
                   /\ f.issued = clicks'
              ELSE \E g \in fetches \ fetches' :
                      /\ g.n = f.n
                      /\ g.key = f.key
                      /\ g.issued = f.issued
        /\ \A k \in DOMAIN appointmentsCache' :
              \/ /\ k \in DOMAIN appointmentsCache
                 /\ appointmentsCache'[k] = appointmentsCache[k]
                 /\ fetchedBy'[k] = fetchedBy[k]
              \/ \E f \in fetches \ fetches' :
                    /\ f.phase = "served"
                    /\ f.key = k
                    /\ appointmentsCache'[k] = f.list
                    /\ fetchedBy'[k].issued = f.issued ]_vars

\* C29 witness: a response has just been stored under the key of the view
\* its fetch was issued for, after the user moved to a view with another
\* key.
C29_Witness ==
    \E k \in DOMAIN fetchedBy :
       /\ fetchedBy[k].delivered = clicks
       /\ fetchedBy[k].issued < clicks
       /\ k # CurrentKey
       /\ getAppointments(k) # None
       /\ getAppointments(CurrentKey) = None

\* C26: when the page serves a cached list, the list was fetched for the
\* date range of the pivot date and view mode it shows.
C26_ServedForCurrentRange ==
    Serves =>
      /\ fetchedBy[CurrentKey].startDate
           = getDateRange(pivotDate, viewMode).startDate
      /\ fetchedBy[CurrentKey].endDate
           = getDateRange(pivotDate, viewMode).endDate

\* In month mode the page serves, for a pivot date in one week, the list
\* fetched for another week of the same month.
C26_MonthServesOtherWeek ==
    /\ Serves
    /\ viewMode = "month"
    /\ \/ fetchedBy[CurrentKey].endDate < pivotDate
       \/ fetchedBy[CurrentKey].startDate > addDays(pivotDate, 1)

\* In day and week mode the served list was fetched for the range of the
\* view shown.
C26_DayAndWeekRanges ==
    (Serves /\ viewMode \in {"day", "week"}) =>
      /\ fetchedBy[CurrentKey].startDate
           = getDateRange(pivotDate, viewMode).startDate
      /\ fetchedBy[CurrentKey].endDate
           = getDateRange(pivotDate, viewMode).endDate

\* A successful mutation has cleared the cache and its handler has ended;
\* the view shown has no cached list and no fetch for its key is in
\* flight.  The user could still act.
ClearedAndIdle ==
    /\ clicks >= 1
    /\ clicks < MaxClicks
    /\ nextId > 1
    /\ pending = None
    /\ getAppointments(CurrentKey) = None
    /\ \A f \in fetches : f.key # CurrentKey

\* C25: after a successful mutation has cleared the cache, the page does
\* not stay without a list and without a fetch for the view it shows: it
\* fetches again and the entry of the current key becomes non-null, the
\* user doing nothing.
C25_RefetchAfterClear == ClearedAndIdle ~> ~ClearedAndIdle

\* The page rests on the view it showed when the appointment was created,
\* with an empty cache and nothing in flight.
C25_RestsUncached ==
    /\ ClearedAndIdle
    /\ clicks = 2
    /\ fetches = {}
    /\ appointmentsCache = EmptyCache
    /\ pivotDate = getInitialPivotDate(BootTime)
    /\ viewMode = "week"

\* The two sessions' calls have ended; they were made by an authenticated
\* user with valid data for overlapping intervals, and each one's
\* conflict check found the slot free: both checks ran before either
\* insert.
BothCheckedFirst ==
    /\ \A s \in Sessions :
          /\ calls[s].pc = "done"
          /\ calls[s].result.user
          /\ SchemaOk(calls[s].data, 0)
          /\ calls[s].found = {}
    /\ Overlap(calls["s1"].data.startTime,
               calls["s1"].data.startTime + calls["s1"].data.duration,
               calls["s2"].data.startTime,
               calls["s2"].data.startTime + calls["s2"].data.duration)

\* The appointment the session's call has created is stored.
StoredBy(s) ==
    { a \in appointments :
        /\ calls[s].result.appointment # None
        /\ a.id = calls[s].result.appointment[1].id
        /\ a.startTime = calls[s].data.startTime
        /\ a.endTime = calls[s].data.startTime + calls[s].data.duration
        /\ a.status # "CANCELLED" }

\* C22: when two createAppointment calls for overlapping intervals have
\* both had their conflict check before either has inserted, both
\* succeed and the table holds their two overlapping appointments, none
\* cancelled.
C22_ConcurrentCreatesOverlap ==
    BothCheckedFirst =>
      /\ \A s \in Sessions : calls[s].result.outcome = "success"
      /\ \E a \in StoredBy("s1"), b \in StoredBy("s2") :
            /\ a.id # b.id
            /\ Overlap(a.startTime, a.endTime, b.startTime, b.endTime)

\* C22 witness: the two sessions booked 100-115 and 100-130 at once and
\* both appointments are stored.
C22_Witness ==
    /\ BothCheckedFirst
    /\ calls["s1"].data.duration = 15
    /\ calls["s2"].data.duration = 30
    /\ Cardinality(appointments) = 2
    /\ \A a \in appointments : a.startTime = 100 /\ a.status = "PENDING"

\* A call whose check runs after the other call's insert is refused.
C22_WitnessRefused ==
    /\ calls["s1"].pc = "done"
    /\ calls["s1"].result.outcome = "success"
    /\ calls["s2"].pc = "done"
    /\ calls["s2"].found # {}
    /\ calls["s2"].result.outcome = "failure"
    /\ calls["s2"].result.error = "occupied"

====
